---- MODULE Spec2Model ----
(***************************************************************************)
(* Model of the KindleCards scheduling engine, the Anki-style              *)
(* SpacedRepetitionSystem class (src/unnamed/part_004).                    *)
(* The study session, FlashcardStudyModal (src/flashcard-modal.ts), is     *)
(* the variable modal and the specification SpecModal.                     *)
(*                                                                         *)
(* Units.  Timestamps are minutes since the epoch: every offset the code   *)
(* adds to a Date is a whole number of minutes (steps) or days.  The       *)
(* fractional quantities (easeFactor, easyBonus, intervalModifier,         *)
(* hardInterval, newInterval) are fixed-point numbers in twentieths, the   *)
(* coarsest unit holding every value the code and the settings sliders     *)
(* produce (steps of 0.05): 2.5 is 50, 1.3 is 26, 0.15 is 3, 0.2 is 4.     *)
(* Math.floor of a product is an integer division of the scaled product:   *)
(* the products are exact decimals here.  The code computes them in IEEE   *)
(* doubles, where a sum such as 1.3 + 0.15 + 0.15 falls just short of 1.6  *)
(* and the floor of a product that is a whole number in decimals can come  *)
(* out one day lower.                                                      *)
(***************************************************************************)
EXTENDS Integers, Sequences, FiniteSets, TLC

VARIABLES
    settings,     \* this.settings
    reviewData,   \* this.reviewData : cardId -> CardReviewData
    now,          \* the clock: what new Date() returns
    updates,      \* how many times the settings have been replaced
    last,         \* the last call on the scheduler, with the record it found
    run,          \* per card: the run of Good answers it is in
    modal         \* the study session: the fields of FlashcardStudyModal

vars == <<settings, reviewData, now, updates, last, run, modal>>

----------------------------------------------------------------------------
(* Bounds of the model *)

MaxReviews == 4
MaxUpdates == 1

Cards == {"c1"}
Qualities == {"again", "hard", "good", "easy"}
\* the instants at which the clock is read: one minute after the epoch, ten
\* minutes later, a day later
Instants == {1, 11, 1451}

----------------------------------------------------------------------------
(* Program constants *)

Day == 1440
MinimumEase == 26
AgainPenalty == 4
HardPenalty == 3
EasyEaseBonus == 3

Min(a, b) == IF a < b THEN a ELSE b
Max(a, b) == IF a > b THEN a ELSE b

\* JavaScript's  v || d  on numbers: 0 (and undefined) are falsy
OrDefault(v, d) == IF v = 0 THEN d ELSE v

----------------------------------------------------------------------------
(* Configurations: KindleCardsSettings, the Anki-like fields *)

\* the constructor's fallback; the two daily caps are absent from it
DefaultSettings ==
    [ learningSteps |-> <<1, 10>>, relearningSteps |-> <<10>>,
      graduatingInterval |-> 1, easyInterval |-> 4,
      startingEase |-> 50, easyBonus |-> 26, intervalModifier |-> 20,
      maximumInterval |-> 36500, hardInterval |-> 24, newInterval |-> 0,
      minimumInterval |-> 1, leechThreshold |-> 8,
      newCardsPerDay |-> 0, maximumReviewsPerDay |-> 0 ]

\* within the settings tab's ranges: a low cap, a large easy bonus, lapses keep
\* the whole interval, two lapses make a leech
CapSettings ==
    [ learningSteps |-> <<5>>, relearningSteps |-> <<2, 7>>,
      graduatingInterval |-> 2, easyInterval |-> 10,
      startingEase |-> 50, easyBonus |-> 60, intervalModifier |-> 20,
      maximumInterval |-> 30, hardInterval |-> 30, newInterval |-> 20,
      minimumInterval |-> 1, leechThreshold |-> 2,
      newCardsPerDay |-> 1, maximumReviewsPerDay |-> 1 ]

\* within the settings tab's ranges: lowest starting ease and interval
\* modifier, a minimum interval above one day, one lapse makes a leech
LowSettings ==
    [ learningSteps |-> <<1, 10>>, relearningSteps |-> <<10>>,
      graduatingInterval |-> 1, easyInterval |-> 2,
      startingEase |-> 26, easyBonus |-> 20, intervalModifier |-> 10,
      maximumInterval |-> 36500, hardInterval |-> 20, newInterval |-> 10,
      minimumInterval |-> 3, leechThreshold |-> 1,
      newCardsPerDay |-> 20, maximumReviewsPerDay |-> 200 ]

Configs == {DefaultSettings, CapSettings, LowSettings}

----------------------------------------------------------------------------
(* Records *)

createNewCardData(cardId, st, t) ==
    [ cardId |-> cardId,
      easeFactor |-> OrDefault(st.startingEase, 50),
      interval |-> 0,
      repetitions |-> 0,
      nextReview |-> t,
      lastReviewed |-> 0,
      totalReviews |-> 0,
      correctStreak |-> 0,
      difficulty |-> "new",
      lapses |-> 0,
      learningSteps |-> st.learningSteps,
      currentStep |-> 0,
      graduated |-> FALSE,
      buried |-> FALSE ]

\* getCardData making a new record of every id it is asked for
withCardAnew(rd, cardId, st, t) ==
    [x \in DOMAIN rd \cup {cardId} |->
        IF x = cardId THEN createNewCardData(cardId, st, t) ELSE rd[x]]

\* the map after getCardData(cardId): a missing record is inserted
withCard(rd, cardId, st, t) ==
    IF cardId \in DOMAIN rd THEN rd
    ELSE [x \in DOMAIN rd \cup {cardId} |->
            IF x = cardId THEN createNewCardData(cardId, st, t) ELSE rd[x]]

getCardData(rd, cardId, st, t) == withCard(rd, cardId, st, t)[cardId]

\* the map after getCardData on every id of cardIds
RECURSIVE withCards(_, _, _, _)
withCards(rd, cardIds, st, t) ==
    IF cardIds = << >> THEN rd
    ELSE withCards(withCard(rd, Head(cardIds), st, t), Tail(cardIds), st, t)

----------------------------------------------------------------------------
(* Scheduling helpers *)

\* data.learningSteps[stepIndex] || 1, the index counted from 0
stepMinutes(steps, stepIndex) ==
    IF stepIndex + 1 \in DOMAIN steps
    THEN OrDefault(steps[stepIndex + 1], 1)
    ELSE 1

scheduleInLearning(data, stepIndex, t) ==
    [data EXCEPT !.currentStep = stepIndex,
                 !.nextReview = t + stepMinutes(data.learningSteps, stepIndex)]

scheduleReview(data, t) ==
    [data EXCEPT !.nextReview = t + data.interval * Day]

graduateCard(data, interval, t) ==
    scheduleReview([data EXCEPT !.difficulty = "review",
                                !.graduated = TRUE,
                                !.interval = interval,
                                !.repetitions = 1,
                                !.correctStreak = 1], t)

----------------------------------------------------------------------------
(* The four handlers of reviewCard *)

\* handleNewCard graduating an Easy card at the graduating interval
handleNewCardGraduatingInterval(data, quality, t, st) ==
    LET d == [data EXCEPT !.difficulty = "learning", !.currentStep = 0]
    IN  IF quality = "easy"
        THEN graduateCard(d, OrDefault(st.graduatingInterval, 1), t)
        ELSE scheduleInLearning(d, 0, t)

\* handleNewCard taking the learning steps of the current settings
handleNewCardRecopiesSteps(data, quality, t, st) ==
    LET d == [data EXCEPT !.difficulty = "learning", !.currentStep = 0,
                          !.learningSteps = st.learningSteps]
    IN  IF quality = "easy"
        THEN graduateCard(d, OrDefault(st.easyInterval, 4), t)
        ELSE scheduleInLearning(d, 0, t)

handleNewCard(data, quality, t, st) ==
    LET d == [data EXCEPT !.difficulty = "learning", !.currentStep = 0]
    IN  IF quality = "easy"
        THEN graduateCard(d, OrDefault(st.easyInterval, 4), t)
        ELSE scheduleInLearning(d, 0, t)

\* handleLearningCard graduating on Good at the easy interval
handleLearningCardEasyInterval(data, quality, t, st) ==
    CASE quality = "again" ->
            scheduleInLearning([data EXCEPT !.currentStep = 0], 0, t)
      [] quality = "hard" ->
            scheduleInLearning(data, Max(0, data.currentStep - 1), t)
      [] quality = "good" ->
            IF data.currentStep < Len(data.learningSteps) - 1
            THEN scheduleInLearning(data, data.currentStep + 1, t)
            ELSE graduateCard(data, OrDefault(st.easyInterval, 4), t)
      [] quality = "easy" ->
            graduateCard(data, OrDefault(st.easyInterval, 4), t)

\* handleLearningCard graduating on every Good
handleLearningCardOneStep(data, quality, t, st) ==
    CASE quality = "again" ->
            scheduleInLearning([data EXCEPT !.currentStep = 0], 0, t)
      [] quality = "hard" ->
            scheduleInLearning(data, Max(0, data.currentStep - 1), t)
      [] quality = "good" ->
            graduateCard(data, OrDefault(st.graduatingInterval, 1), t)
      [] quality = "easy" ->
            graduateCard(data, OrDefault(st.easyInterval, 4), t)

\* handleLearningCard counting the steps of the current settings
handleLearningCardSettingsSteps(data, quality, t, st) ==
    CASE quality = "again" ->
            scheduleInLearning([data EXCEPT !.currentStep = 0], 0, t)
      [] quality = "hard" ->
            scheduleInLearning(data, Max(0, data.currentStep - 1), t)
      [] quality = "good" ->
            IF data.currentStep < Len(st.learningSteps) - 1
            THEN scheduleInLearning(data, data.currentStep + 1, t)
            ELSE graduateCard(data, OrDefault(st.graduatingInterval, 1), t)
      [] quality = "easy" ->
            graduateCard(data, OrDefault(st.easyInterval, 4), t)

handleLearningCard(data, quality, t, st) ==
    CASE quality = "again" ->
            scheduleInLearning([data EXCEPT !.currentStep = 0], 0, t)
      [] quality = "hard" ->
            scheduleInLearning(data, Max(0, data.currentStep - 1), t)
      [] quality = "good" ->
            IF data.currentStep < Len(data.learningSteps) - 1
            THEN scheduleInLearning(data, data.currentStep + 1, t)
            ELSE graduateCard(data, OrDefault(st.graduatingInterval, 1), t)
      [] quality = "easy" ->
            graduateCard(data, OrDefault(st.easyInterval, 4), t)

\* lapseCard without the one-day floor of the new interval
lapseCardNoFloor(data, t, st) ==
    LET oldInterval == data.interval
        d == [data EXCEPT
                !.lapses = @ + 1,
                !.difficulty = "relearning",
                !.currentStep = 0,
                !.learningSteps = st.relearningSteps,
                !.easeFactor = Max(MinimumEase, @ - AgainPenalty),
                !.interval = (oldInterval * st.newInterval) \div 20]
    IN  scheduleInLearning(d, 0, t)

\* the lapse: case 'again' of handleReviewCard, before the final cap
\* lapseCard sending the lapsed card back to Learning
lapseCardToLearning(data, t, st) ==
    LET oldInterval == data.interval
        d == [data EXCEPT
                !.lapses = @ + 1,
                !.difficulty = "learning",
                !.currentStep = 0,
                !.learningSteps = st.relearningSteps,
                !.easeFactor = Max(MinimumEase, @ - AgainPenalty),
                !.interval = Max(1, (oldInterval * st.newInterval) \div 20)]
    IN  scheduleInLearning(d, 0, t)

lapseCard(data, t, st) ==
    LET oldInterval == data.interval
        d == [data EXCEPT
                !.lapses = @ + 1,
                !.difficulty = "relearning",
                !.currentStep = 0,
                !.learningSteps = st.relearningSteps,
                !.easeFactor = Max(MinimumEase, @ - AgainPenalty),
                !.interval = Max(1, (oldInterval * st.newInterval) \div 20)]
    IN  scheduleInLearning(d, 0, t)

\* hardReview without the ease floor
hardReviewNoFloor(data, t, st) ==
    LET oldInterval == data.interval
        d == [data EXCEPT
                !.interval = Max(oldInterval + 1,
                                 (oldInterval * OrDefault(st.hardInterval, 24)
                                    * OrDefault(st.intervalModifier, 20)) \div 400),
                !.easeFactor = @ - HardPenalty]
    IN  scheduleReview(d, t)

hardReview(data, t, st) ==
    LET oldInterval == data.interval
        d == [data EXCEPT
                !.interval = Max(oldInterval + 1,
                                 (oldInterval * OrDefault(st.hardInterval, 24)
                                    * OrDefault(st.intervalModifier, 20)) \div 400),
                !.easeFactor = Max(MinimumEase, @ - HardPenalty)]
    IN  scheduleReview(d, t)

\* goodReview leaving out the interval modifier
goodReviewNoModifier(data, t, st) ==
    LET oldInterval == data.interval
        d == [data EXCEPT
                !.interval = (oldInterval * data.easeFactor) \div 20,
                !.repetitions = @ + 1,
                !.correctStreak = @ + 1]
    IN  scheduleReview(d, t)

goodReview(data, t, st) ==
    LET oldInterval == data.interval
        d == [data EXCEPT
                !.interval = (oldInterval * data.easeFactor
                                * OrDefault(st.intervalModifier, 20)) \div 400,
                !.repetitions = @ + 1,
                !.correctStreak = @ + 1]
    IN  scheduleReview(d, t)

easyReview(data, t, st) ==
    LET oldInterval == data.interval
        d == [data EXCEPT
                !.interval = (oldInterval * data.easeFactor
                                * OrDefault(st.easyBonus, 26)
                                * OrDefault(st.intervalModifier, 20)) \div 8000,
                !.easeFactor = @ + EasyEaseBonus,
                !.repetitions = @ + 1,
                !.correctStreak = @ + 1]
    IN  scheduleReview(d, t)

\* the cap that ends handleReviewCard; it follows scheduleReview
capInterval(data, st) ==
    [data EXCEPT !.interval = Min(@, OrDefault(st.maximumInterval, 36500))]

handleReviewCard(data, quality, t, st) ==
    LET d == CASE quality = "again" -> lapseCard(data, t, st)
               [] quality = "hard" -> hardReview(data, t, st)
               [] quality = "good" -> goodReview(data, t, st)
               [] quality = "easy" -> easyReview(data, t, st)
    IN  capInterval(d, st)

\* handleRelearningCard counting one relearning step too many
handleRelearningCardExtraStep(data, quality, t, st) ==
    CASE quality = "again" ->
            scheduleInLearning([data EXCEPT !.currentStep = 0], 0, t)
      [] quality = "hard" ->
            scheduleInLearning(data, Max(0, data.currentStep - 1), t)
      [] quality = "good" ->
            IF data.currentStep < Len(data.learningSteps)
            THEN scheduleInLearning(data, data.currentStep + 1, t)
            ELSE scheduleReview([data EXCEPT !.difficulty = "review",
                                             !.graduated = TRUE], t)
      [] quality = "easy" ->
            scheduleReview([data EXCEPT
                !.difficulty = "review",
                !.graduated = TRUE,
                !.interval = (@ * OrDefault(st.easyBonus, 26)) \div 20], t)

\* handleRelearningCard where Hard stays on the current step
handleRelearningCardHardStays(data, quality, t, st) ==
    CASE quality = "again" ->
            scheduleInLearning([data EXCEPT !.currentStep = 0], 0, t)
      [] quality = "hard" ->
            scheduleInLearning(data, data.currentStep, t)
      [] quality = "good" ->
            IF data.currentStep < Len(data.learningSteps) - 1
            THEN scheduleInLearning(data, data.currentStep + 1, t)
            ELSE scheduleReview([data EXCEPT !.difficulty = "review",
                                             !.graduated = TRUE], t)
      [] quality = "easy" ->
            scheduleReview([data EXCEPT
                !.difficulty = "review",
                !.graduated = TRUE,
                !.interval = (@ * OrDefault(st.easyBonus, 26)) \div 20], t)

\* handleRelearningCard returning to Review at the graduating interval
handleRelearningCardRegraduates(data, quality, t, st) ==
    CASE quality = "again" ->
            scheduleInLearning([data EXCEPT !.currentStep = 0], 0, t)
      [] quality = "hard" ->
            scheduleInLearning(data, Max(0, data.currentStep - 1), t)
      [] quality = "good" ->
            IF data.currentStep < Len(data.learningSteps) - 1
            THEN scheduleInLearning(data, data.currentStep + 1, t)
            ELSE graduateCard(data, OrDefault(st.graduatingInterval, 1), t)
      [] quality = "easy" ->
            scheduleReview([data EXCEPT
                !.difficulty = "review",
                !.graduated = TRUE,
                !.interval = (@ * OrDefault(st.easyBonus, 26)) \div 20], t)

handleRelearningCard(data, quality, t, st) ==
    CASE quality = "again" ->
            scheduleInLearning([data EXCEPT !.currentStep = 0], 0, t)
      [] quality = "hard" ->
            scheduleInLearning(data, Max(0, data.currentStep - 1), t)
      [] quality = "good" ->
            IF data.currentStep < Len(data.learningSteps) - 1
            THEN scheduleInLearning(data, data.currentStep + 1, t)
            ELSE scheduleReview([data EXCEPT !.difficulty = "review",
                                             !.graduated = TRUE], t)
      [] quality = "easy" ->
            scheduleReview([data EXCEPT
                !.difficulty = "review",
                !.graduated = TRUE,
                !.interval = (@ * OrDefault(st.easyBonus, 26)) \div 20], t)

\* checkLeech burying one lapse late
checkLeechLate(data, st) ==
    IF data.lapses > OrDefault(st.leechThreshold, 8)
    THEN [data EXCEPT !.buried = TRUE]
    ELSE data

\* the leech check that ends reviewCard
checkLeech(data, st) ==
    IF data.lapses >= OrDefault(st.leechThreshold, 8)
    THEN [data EXCEPT !.buried = TRUE]
    ELSE data

\* the record reviewCard leaves for a card whose record was data
reviewed(data, quality, t, st) ==
    LET d1 == [data EXCEPT !.lastReviewed = t, !.totalReviews = @ + 1]
        d2 == CASE d1.difficulty = "new" -> handleNewCard(d1, quality, t, st)
                [] d1.difficulty = "learning" -> handleLearningCard(d1, quality, t, st)
                [] d1.difficulty = "review" -> handleReviewCard(d1, quality, t, st)
                [] d1.difficulty = "relearning" -> handleRelearningCard(d1, quality, t, st)
    IN  checkLeech(d2, st)

----------------------------------------------------------------------------
(* Queries, on a map that holds a record for every candidate id *)

Take(s, n) == SubSeq(s, 1, Min(n, Len(s)))

\* getDueCards without the test of the buried flag
getDueCardsKeepsBuried(rd, cardIds, t, st) ==
    LET due(c) == rd[c].nextReview <= t
        dueCards == SelectSeq(cardIds, due)
        maxReviews == st.maximumReviewsPerDay
    IN  IF maxReviews > 0 THEN Take(dueCards, maxReviews) ELSE dueCards

getDueCards(rd, cardIds, t, st) ==
    LET due(c) == ~rd[c].buried /\ rd[c].nextReview <= t
        dueCards == SelectSeq(cardIds, due)
        maxReviews == st.maximumReviewsPerDay
    IN  IF maxReviews > 0 THEN Take(dueCards, maxReviews) ELSE dueCards

getNewCards(rd, cardIds, st) ==
    LET isNew(c) == ~rd[c].buried /\ rd[c].difficulty = "new"
    IN  Take(SelectSeq(cardIds, isNew), OrDefault(st.newCardsPerDay, 20))

\* getStudyCards cutting the due cards alone
getStudyCardsCutsDueOnly(rd, cardIds, t, st) ==
    getDueCards(rd, cardIds, t, st) \o getNewCards(rd, cardIds, st)

\* getStudyCards with the new cards in front
getStudyCardsNewFirst(rd, cardIds, t, st) ==
    LET due(c) == /\ ~rd[c].buried
                  /\ rd[c].nextReview <= t
                  /\ rd[c].difficulty \in {"learning", "relearning", "review"}
        studyCards == getNewCards(rd, cardIds, st) \o SelectSeq(cardIds, due)
        maxReviews == st.maximumReviewsPerDay
    IN  IF maxReviews > 0 THEN Take(studyCards, maxReviews) ELSE studyCards

getStudyCards(rd, cardIds, t, st) ==
    LET due(c) == /\ ~rd[c].buried
                  /\ rd[c].nextReview <= t
                  /\ rd[c].difficulty \in {"learning", "relearning", "review"}
        studyCards == SelectSeq(cardIds, due) \o getNewCards(rd, cardIds, st)
        maxReviews == st.maximumReviewsPerDay
    IN  IF maxReviews > 0 THEN Take(studyCards, maxReviews) ELSE studyCards

\* a comparator that puts a New card last without looking at the other card
compareNewLast(dataA, dataB, t) ==
    IF dataA.difficulty = "new" THEN 1
    ELSE IF dataB.difficulty = "new" THEN -1
    ELSE dataA.nextReview - dataB.nextReview

\* the comparator without its first rule, the one on buried cards
compareBuriedUnseen(dataA, dataB, t) ==
    LET inSteps(d) == d.difficulty \in {"learning", "relearning"}
        aDue == dataA.nextReview <= t
        bDue == dataB.nextReview <= t
    IN  IF inSteps(dataA) /\ ~inSteps(dataB) THEN -1
        ELSE IF ~inSteps(dataA) /\ inSteps(dataB) THEN 1
        ELSE IF inSteps(dataA) /\ inSteps(dataB)
             THEN dataA.nextReview - dataB.nextReview
        ELSE IF aDue /\ ~bDue THEN -1
        ELSE IF ~aDue /\ bDue THEN 1
        ELSE IF aDue /\ bDue THEN dataA.nextReview - dataB.nextReview
        ELSE IF dataA.difficulty = "new" /\ dataB.difficulty # "new" THEN 1
        ELSE IF dataA.difficulty # "new" /\ dataB.difficulty = "new" THEN -1
        ELSE dataA.easeFactor - dataB.easeFactor

\* the comparator of getSortedCards: negative puts a first, positive b first
compare(dataA, dataB, t) ==
    LET inSteps(d) == d.difficulty \in {"learning", "relearning"}
        aDue == dataA.nextReview <= t
        bDue == dataB.nextReview <= t
    IN  IF dataA.buried /\ ~dataB.buried THEN 1
        ELSE IF ~dataA.buried /\ dataB.buried THEN -1
        ELSE IF inSteps(dataA) /\ ~inSteps(dataB) THEN -1
        ELSE IF ~inSteps(dataA) /\ inSteps(dataB) THEN 1
        ELSE IF inSteps(dataA) /\ inSteps(dataB)
             THEN dataA.nextReview - dataB.nextReview
        ELSE IF aDue /\ ~bDue THEN -1
        ELSE IF ~aDue /\ bDue THEN 1
        ELSE IF aDue /\ bDue THEN dataA.nextReview - dataB.nextReview
        ELSE IF dataA.difficulty = "new" /\ dataB.difficulty # "new" THEN 1
        ELSE IF dataA.difficulty # "new" /\ dataB.difficulty = "new" THEN -1
        ELSE dataA.easeFactor - dataB.easeFactor

\* a sort that puts an id in front of the ids it is tied with
RECURSIVE insertBeforeTies(_, _, _, _)
insertBeforeTies(rd, sorted, id, t) ==
    IF sorted = << >> THEN <<id>>
    ELSE IF compare(rd[id], rd[Head(sorted)], t) <= 0 THEN <<id>> \o sorted
    ELSE <<Head(sorted)>> \o insertBeforeTies(rd, Tail(sorted), id, t)

\* Array.prototype.sort is stable: an id goes behind every id already placed
\* that the comparator does not put after it
RECURSIVE insertSorted(_, _, _, _)
insertSorted(rd, sorted, id, t) ==
    IF sorted = << >> THEN <<id>>
    ELSE IF compare(rd[id], rd[Head(sorted)], t) < 0 THEN <<id>> \o sorted
    ELSE <<Head(sorted)>> \o insertSorted(rd, Tail(sorted), id, t)

RECURSIVE sortInto(_, _, _, _)
sortInto(rd, sorted, cardIds, t) ==
    IF cardIds = << >> THEN sorted
    ELSE sortInto(rd, insertSorted(rd, sorted, Head(cardIds), t), Tail(cardIds), t)

getSortedCards(rd, cardIds, t) == sortInto(rd, << >>, cardIds, t)

\* the counts of getStats with every due card counted as due, as the first
\* scheduler of the plugin did
RECURSIVE statsDueAnyState(_, _, _, _)
statsDueAnyState(rd, cardIds, n, t) ==
    IF n = 0
    THEN [total |-> Len(cardIds), new |-> 0, learning |-> 0, review |-> 0,
          due |-> 0, totalEase |-> 0, easeCount |-> 0]
    ELSE LET stats == statsDueAnyState(rd, cardIds, n - 1, t)
             data == rd[cardIds[n]]
             dueNow == IF data.nextReview <= t THEN 1 ELSE 0
         IN  IF data.buried THEN stats
             ELSE IF data.difficulty = "new"
                  THEN [stats EXCEPT !.new = @ + 1, !.due = @ + dueNow]
             ELSE IF data.difficulty \in {"learning", "relearning"}
                  THEN [stats EXCEPT !.learning = @ + 1, !.due = @ + dueNow]
             ELSE [stats EXCEPT !.review = @ + 1, !.due = @ + dueNow,
                                !.totalEase = @ + data.easeFactor,
                                !.easeCount = @ + 1]

\* getStats after the cards of cardIds up to place n; averageEase is kept as
\* the sum and the count it is the quotient of
RECURSIVE statsUpTo(_, _, _, _)
statsUpTo(rd, cardIds, n, t) ==
    IF n = 0
    THEN [total |-> Len(cardIds), new |-> 0, learning |-> 0, review |-> 0,
          due |-> 0, totalEase |-> 0, easeCount |-> 0]
    ELSE LET stats == statsUpTo(rd, cardIds, n - 1, t)
             data == rd[cardIds[n]]
             dueNow == IF data.nextReview <= t THEN 1 ELSE 0
         IN  IF data.buried THEN stats
             ELSE IF data.difficulty = "new"
                  THEN [stats EXCEPT !.new = @ + 1]
             ELSE IF data.difficulty \in {"learning", "relearning"}
                  THEN [stats EXCEPT !.learning = @ + 1, !.due = @ + dueNow]
             ELSE IF data.difficulty = "review"
                  THEN [stats EXCEPT !.review = @ + 1, !.due = @ + dueNow,
                                     !.totalEase = @ + data.easeFactor,
                                     !.easeCount = @ + 1]
             ELSE stats

\* averageEase as the fraction [num / den], in twentieths
getStats(rd, cardIds, t, st) ==
    LET stats == statsUpTo(rd, cardIds, Len(cardIds), t)
    IN  [total |-> stats.total, new |-> stats.new, learning |-> stats.learning,
         review |-> stats.review, due |-> stats.due,
         averageEase |->
             IF stats.easeCount > 0
             THEN [num |-> stats.totalEase, den |-> stats.easeCount]
             ELSE [num |-> OrDefault(st.startingEase, 50), den |-> 1]]

----------------------------------------------------------------------------
(* Export and import of the review data.  The plugin saves what exportData  *)
(* returns as JSON, which writes a Date as its ISO string, and the next     *)
(* start hands the parsed JSON to the constructor, whose loadData turns the *)
(* strings back into Dates.  A saved timestamp is [iso |-> minutes].        *)

toJSON(date) == [iso |-> date]

\* new Date of a string that is no date is the Invalid Date, whose time is no
\* instant; it is not thrown
InvalidDate == -1

parseDate(saved) == IF "iso" \in DOMAIN saved THEN saved.iso ELSE InvalidDate

\* a shallow copy of every record
exportData(rd) == [cardId \in DOMAIN rd |-> rd[cardId]]

\* the records as saveData writes them
savedData(rd) ==
    [cardId \in DOMAIN rd |->
        [exportData(rd)[cardId] EXCEPT !.nextReview = toJSON(@),
                                      !.lastReviewed = toJSON(@)]]

migrateDifficulty(oldDifficulty) ==
    CASE oldDifficulty = "new" -> "new"
      [] oldDifficulty = "learning" -> "learning"
      [] oldDifficulty = "review" -> "review"
      [] OTHER -> "new"

\* the record loadData stores for one saved record; a field the saved record
\* lacks reads as undefined
loadRecord(data) ==
    LET has(f) == f \in DOMAIN data
    IN  [cardId |-> data.cardId,
         easeFactor |-> data.easeFactor,
         interval |-> data.interval,
         repetitions |-> data.repetitions,
         totalReviews |-> data.totalReviews,
         correctStreak |-> data.correctStreak,
         nextReview |-> parseDate(data.nextReview),
         lastReviewed |-> parseDate(data.lastReviewed),
         lapses |-> IF has("lapses") THEN OrDefault(data.lapses, 0) ELSE 0,
         learningSteps |-> IF has("learningSteps") THEN data.learningSteps ELSE << >>,
         currentStep |-> IF has("currentStep") THEN OrDefault(data.currentStep, 0) ELSE 0,
         graduated |-> IF has("graduated") THEN data.graduated
                       ELSE data.difficulty = "review",
         buried |-> IF has("buried") THEN data.buried ELSE FALSE,
         difficulty |-> migrateDifficulty(data.difficulty)]

loadData(saved) == [cardId \in DOMAIN saved |-> loadRecord(saved[cardId])]

----------------------------------------------------------------------------
(* Observation of the calls: what the caller of reviewCard passed and found *)

NoData == createNewCardData("", DefaultSettings, 0)

\* ids is the list a query was handed and result the list it returned
NoCall == [op |-> "none", card |-> "", quality |-> "", at |-> 0, before |-> NoData,
           ids |-> << >>, result |-> << >>]

\* no study session is open
NoStats == [total |-> 0, correct |-> 0, incorrect |-> 0, remaining |-> 0,
            reviewed |-> 0]
NoEvent == [op |-> "none", marked |-> -1, from |-> -1, clicks |-> {}]
NoModal ==
    [ screen |-> "none", clippings |-> 0, currentIndex |-> 0,
      showingAnswer |-> FALSE, shown |-> -1,
      prevDisabled |-> FALSE, nextDisabled |-> FALSE, flipDisabled |-> FALSE,
      markDisabled |-> FALSE, studyVisible |-> FALSE,
      studyStats |-> NoStats, timers |-> << >>, event |-> NoEvent ]

NoRun == [kind |-> "none", n |-> 0]

\* the run of answers a card is in after answering quality from state from:
\* Good answers counted from a New card's first Good, or from a lapse
nextRun(r, from, quality) ==
    CASE from = "new" /\ quality = "good" -> [kind |-> "fromNew", n |-> 1]
      [] from = "review" /\ quality = "again" -> [kind |-> "lapse", n |-> 0]
      [] from # "new" /\ quality = "good" /\ r.kind # "none" -> [r EXCEPT !.n = @ + 1]
      [] OTHER -> NoRun

totalReviews(rd) ==
    LET RECURSIVE sum(_)
        sum(S) == IF S = {} THEN 0
                  ELSE LET c == CHOOSE x \in S : TRUE
                       IN  rd[c].totalReviews + sum(S \ {c})
    IN  sum(DOMAIN rd)

----------------------------------------------------------------------------
(* The state machine *)

Init ==
    /\ settings \in Configs
    /\ reviewData = << >>
    /\ now = 1
    /\ updates = 0
    /\ last = NoCall
    /\ run = [c \in Cards |-> NoRun]
    /\ modal = NoModal

\* the clock advances between calls
Tick(t) ==
    /\ t > now
    /\ now' = t
    /\ UNCHANGED <<modal, settings, reviewData, updates, last, run>>

UpdateSettings(st) ==
    /\ updates < MaxUpdates
    /\ st # settings
    /\ settings' = st
    /\ updates' = updates + 1
    /\ last' = [NoCall EXCEPT !.op = "updateSettings"]
    /\ UNCHANGED <<modal, reviewData, now, run>>

GetCardData(cardId) ==
    /\ cardId \notin DOMAIN reviewData
    /\ reviewData' = withCard(reviewData, cardId, settings, now)
    /\ last' = [NoCall EXCEPT !.op = "getCardData", !.card = cardId]
    /\ UNCHANGED <<modal, settings, now, updates, run>>

ReviewCard(cardId, quality) ==
    /\ totalReviews(reviewData) < MaxReviews
    /\ LET rd == withCard(reviewData, cardId, settings, now)
           data == rd[cardId]
       IN  /\ reviewData' = [rd EXCEPT ![cardId] = reviewed(data, quality, now, settings)]
           /\ last' = [NoCall EXCEPT !.op = "reviewCard", !.card = cardId,
                              !.quality = quality, !.at = now, !.before = data]
           /\ run' = [run EXCEPT ![cardId] = nextRun(@, data.difficulty, quality)]
    /\ UNCHANGED <<modal, settings, now, updates>>

Next ==
    \/ \E t \in Instants : Tick(t)
    \/ \E st \in Configs : UpdateSettings(st)
    \/ \E c \in Cards : GetCardData(c)
    \/ \E c \in Cards, q \in Qualities : ReviewCard(c, q)

Spec == Init /\ [][Next]_vars

\* the plugin is closed and started again: the saved records are loaded into
\* a new scheduler
Restart ==
    /\ reviewData' = loadData(savedData(reviewData))
    /\ last' = [NoCall EXCEPT !.op = "loadData", !.at = now]
    /\ run' = [c \in Cards |-> NoRun]
    /\ UNCHANGED <<modal, settings, now, updates>>

NextReload ==
    \/ Next
    \/ Restart

SpecReload == Init /\ [][NextReload]_vars

\* the fields the first scheduler of the plugin did not write
OptionalFields == {"lapses", "learningSteps", "currentStep", "graduated", "buried"}

oldFormat(saved) ==
    [cardId \in DOMAIN saved |->
        [f \in DOMAIN saved[cardId] \ OptionalFields |-> saved[cardId][f]]]

\* the saved records with one field of one record overwritten by a value that
\* is neither a date nor a state
garbled(saved, cardId, field) ==
    [saved EXCEPT ![cardId] =
        IF field = "nextReview"
        THEN [@ EXCEPT !.nextReview = [text |-> "garbage"]]
        ELSE [@ EXCEPT !.difficulty = "garbage"]]

\* the plugin starts on records in the old format, which knew the states
\* new, learning and review
RestartOldFormat ==
    /\ reviewData # << >>
    /\ \A c \in DOMAIN reviewData :
          reviewData[c].difficulty # "relearning" /\ ~reviewData[c].buried
    /\ reviewData' = loadData(oldFormat(savedData(reviewData)))
    /\ last' = [NoCall EXCEPT !.op = "loadOldFormat", !.at = now]
    /\ run' = [c \in Cards |-> NoRun]
    /\ UNCHANGED <<modal, settings, now, updates>>

\* the plugin starts on saved records of which one is damaged
RestartCorrupt(cardId, field) ==
    /\ cardId \in DOMAIN reviewData
    /\ reviewData' = loadData(garbled(savedData(reviewData), cardId, field))
    /\ last' = [NoCall EXCEPT !.op = "loadCorrupt", !.at = now, !.card = cardId,
                              !.ids = <<field>>]
    /\ run' = [c \in Cards |-> NoRun]
    /\ UNCHANGED <<modal, settings, now, updates>>

NextImport ==
    \/ NextReload
    \/ RestartOldFormat
    \/ \E c \in Cards, field \in {"nextReview", "difficulty"} : RestartCorrupt(c, field)

SpecImport == Init /\ [][NextImport]_vars

----------------------------------------------------------------------------
(* A deck of several cards under the queries.  The deck a query meets is    *)
(* the outcome of earlier reviews: each card's record is what reviewCard    *)
(* makes of a history of answers, under the settings in force.              *)

MaxIds == 3

DeckCards == {"c1", "c2", "c3"}

\* the plugin's defaults with both daily caps set to 0 and leeches after one lapse
UncappedSettings ==
    [DefaultSettings EXCEPT !.leechThreshold = 1,
                            !.newCardsPerDay = 0, !.maximumReviewsPerDay = 0]

\* the plugin's defaults with at most two reviews and five new cards a day
PairSettings ==
    [DefaultSettings EXCEPT !.newCardsPerDay = 5, !.maximumReviewsPerDay = 2]

DeckConfigs == {CapSettings, UncappedSettings, PairSettings}

\* a review that leaves the reviewed record alone in the map
afterReviewAlone(rd, cardId, data) == [x \in {cardId} |-> data]

\* the map after reviewCard: the record of cardId, which reviewCard changes in
\* place, holds the outcome
afterReview(rd, cardId, data) == [rd EXCEPT ![cardId] = data]

\* when the card was first looked up, and the answers given since
Histories ==
    { [created |-> 1, answers |-> << >>],
      [created |-> 11, answers |-> << >>],
      [created |-> 1, answers |-> << <<"good", 1>> >>],
      [created |-> 1, answers |-> << <<"good", 1>>, <<"good", 1>> >>],
      [created |-> 1, answers |-> << <<"good", 1>>, <<"good", 1>>, <<"good", 1>> >>],
      [created |-> 1, answers |-> << <<"easy", 1>> >>],
      [created |-> 1, answers |-> << <<"easy", 11>> >>],
      [created |-> 1, answers |-> << <<"easy", 1>>, <<"hard", 1>> >>],
      [created |-> 1, answers |-> << <<"easy", 1>>, <<"again", 1>> >>],
      [created |-> 1, answers |-> << <<"easy", 1>>, <<"again", 1>>, <<"good", 1>> >>] }

\* the instant of the last call of a history
lastCall(h) ==
    IF h.answers = << >> THEN h.created ELSE h.answers[Len(h.answers)][2]

RECURSIVE replay(_, _, _)
replay(data, answers, st) ==
    IF answers = << >> THEN data
    ELSE replay(reviewed(data, Head(answers)[1], Head(answers)[2], st),
                Tail(answers), st)

recordOf(cardId, h, st) ==
    replay(createNewCardData(cardId, st, h.created), h.answers, st)

\* the lists of candidate ids: every id at most once
CardIdLists ==
    {ids \in UNION {[1..n -> DeckCards] : n \in 0..MaxIds} :
        \A i, j \in DOMAIN ids : ids[i] = ids[j] => i = j}

\* a behaviour is one query on one deck: a query changes no record, so the
\* deck a second query would meet is one a first query meets
FirstCall == last.op = "none"

InitDeck ==
    /\ settings \in DeckConfigs
    /\ now \in Instants
    /\ \E D \in SUBSET DeckCards :
          \E h \in [D -> {x \in Histories : lastCall(x) <= now}] :
              reviewData = [c \in D |-> recordOf(c, h[c], settings)]
    /\ updates = 0
    /\ last = NoCall
    /\ run = [c \in Cards |-> NoRun]
    /\ modal = NoModal

\* A query reads the clock when it starts, and createNewCardData reads it
\* again for every id that has no record: the readings a call can get for the
\* records it creates.  last.at is the reading at the start.
ClockInCall(cardIds) ==
    IF \E i \in DOMAIN cardIds : cardIds[i] \notin DOMAIN reviewData
    THEN {t \in Instants : t >= now}
    ELSE {now}

GetDueCards(cardIds) ==
    /\ FirstCall
    /\ \E created \in ClockInCall(cardIds) :
          /\ reviewData' = withCards(reviewData, cardIds, settings, created)
          /\ now' = created
    /\ last' = [NoCall EXCEPT !.op = "getDueCards", !.at = now, !.ids = cardIds,
                              !.result = getDueCards(reviewData', cardIds, now, settings)]
    /\ UNCHANGED <<modal, settings, updates, run>>

GetNewCards(cardIds) ==
    /\ FirstCall
    /\ \E created \in ClockInCall(cardIds) :
          /\ reviewData' = withCards(reviewData, cardIds, settings, created)
          /\ now' = created
    /\ last' = [NoCall EXCEPT !.op = "getNewCards", !.at = now, !.ids = cardIds,
                              !.result = getNewCards(reviewData', cardIds, settings)]
    /\ UNCHANGED <<modal, settings, updates, run>>

GetStudyCards(cardIds) ==
    /\ FirstCall
    /\ \E created \in ClockInCall(cardIds) :
          /\ reviewData' = withCards(reviewData, cardIds, settings, created)
          /\ now' = created
    /\ last' = [NoCall EXCEPT !.op = "getStudyCards", !.at = now, !.ids = cardIds,
                              !.result = getStudyCards(reviewData', cardIds, now, settings)]
    /\ UNCHANGED <<modal, settings, updates, run>>

GetSortedCards(cardIds) ==
    /\ FirstCall
    /\ \E created \in ClockInCall(cardIds) :
          /\ reviewData' = withCards(reviewData, cardIds, settings, created)
          /\ now' = created
    /\ last' = [NoCall EXCEPT !.op = "getSortedCards", !.at = now, !.ids = cardIds,
                              !.result = getSortedCards(reviewData', cardIds, now)]
    /\ UNCHANGED <<modal, settings, updates, run>>

GetStats(cardIds) ==
    /\ FirstCall
    /\ \E created \in ClockInCall(cardIds) :
          /\ reviewData' = withCards(reviewData, cardIds, settings, created)
          /\ now' = created
    /\ last' = [NoCall EXCEPT !.op = "getStats", !.at = now, !.ids = cardIds,
                              !.result = getStats(reviewData', cardIds, now, settings)]
    /\ UNCHANGED <<modal, settings, updates, run>>

\* reviewCard on a card of the deck
DeckReviewCard(cardId, quality) ==
    /\ FirstCall
    /\ LET rd == withCard(reviewData, cardId, settings, now)
           data == rd[cardId]
       IN  /\ reviewData' = afterReview(rd, cardId, reviewed(data, quality, now, settings))
           /\ last' = [NoCall EXCEPT !.op = "reviewCard", !.card = cardId,
                                     !.quality = quality, !.at = now, !.before = data]
    /\ UNCHANGED <<modal, settings, now, updates, run>>

NextDeck ==
    \/ \E ids \in CardIdLists : GetDueCards(ids)
    \/ \E ids \in CardIdLists : GetNewCards(ids)
    \/ \E ids \in CardIdLists : GetStudyCards(ids)
    \/ \E ids \in CardIdLists : GetSortedCards(ids)
    \/ \E ids \in CardIdLists : GetStats(ids)
    \/ \E c \in DeckCards, q \in Qualities : DeckReviewCard(c, q)

SpecDeck == InitDeck /\ [][NextDeck]_vars

----------------------------------------------------------------------------
(* The card identifier.  A string is the sequence of its UTF-16 code units; *)
(* the 32-bit hash is kept as its two 16-bit halves <<high, low>>, so that  *)
(* no product leaves the range of the integers of the model.                *)

MaxText == 2

ContentPrefix == 100
IdWidth == 8
HashFactor == 31
Half == 65536
Space == 32
Bar == 124
Zero == 48

\* the code units of the inputs: a space and the letter a
Chars == {Space, 97}

Texts == UNION {[1..n -> Chars] : n \in 0..MaxText}

\* n times the letter b
Fill(n) == [i \in 1..n |-> 98]

\* contents that end before, at and after the hundredth character
Contents ==
    {Fill(n) \o tail :
        n \in {0, ContentPrefix - 2, ContentPrefix - 1, ContentPrefix},
        tail \in Texts}

RECURSIVE trimStart(_)
trimStart(str) ==
    IF str # << >> /\ Head(str) = Space THEN trimStart(Tail(str)) ELSE str

RECURSIVE trimEnd(_)
trimEnd(str) ==
    IF str # << >> /\ str[Len(str)] = Space
    THEN trimEnd(SubSeq(str, 1, Len(str) - 1))
    ELSE str

trim(str) == trimEnd(trimStart(str))

\* str.substring(0, n)
substring(str, n) == SubSeq(str, 1, Min(n, Len(str)))

\* hash = ((hash << 5) - hash) + char; hash = hash & hash
hashStep(hash, char) ==
    LET low == HashFactor * hash[2] + char
    IN  <<(HashFactor * hash[1] + low \div Half) % Half, low % Half>>

\* the loop over the code units from..to of str, first to last; the test of
\* left, which no hash fails, has the first half done before the second starts
RECURSIVE hashLoop(_, _, _, _)
hashLoop(hash, str, from, to) ==
    IF from > to THEN hash
    ELSE IF from = to THEN hashStep(hash, str[from])
    ELSE LET mid == (from + to) \div 2
             left == hashLoop(hash, str, from, mid)
         IN  IF left[1] >= 0 THEN hashLoop(left, str, mid + 1, to) ELSE left

\* Math.abs of the signed 32-bit integer
absHash(hash) ==
    IF hash[1] < Half \div 2 THEN hash
    ELSE <<(Half - 1 - hash[1] + (IF hash[2] = 0 THEN 1 ELSE 0)) % Half,
           (Half - hash[2]) % Half>>

hexDigit(d) == IF d < 10 THEN Zero + d ELSE 97 + (d - 10)

\* n.toString(16), n below Half
RECURSIVE toHex(_)
toHex(n) ==
    IF n < 16 THEN <<hexDigit(n)>> ELSE toHex(n \div 16) \o <<hexDigit(n % 16)>>

padStart(str, width) ==
    [i \in 1..(Max(width, Len(str)) - Len(str)) |-> Zero] \o str

\* the hexadecimal digits of the two halves, without leading zeros
toString16(hash) ==
    IF hash[1] = 0 THEN toHex(hash[2])
    ELSE toHex(hash[1]) \o padStart(toHex(hash[2]), IdWidth \div 2)

hashString(str) ==
    padStart(toString16(absHash(hashLoop(<<0, 0>>, str, 1, Len(str)))), IdWidth)

\* generateCardId on the whole content
generateCardIdWholeContent(title, author, content) ==
    IF title = << >> \/ author = << >> \/ content = << >>
    THEN [threw |-> TRUE, id |-> << >>]
    ELSE [threw |-> FALSE,
          id |-> hashString(trim(title) \o <<Bar>> \o trim(author) \o <<Bar>>
                             \o trim(content))]

\* threw: the call ended in the Error; id is what it returned otherwise
generateCardId(title, author, content) ==
    IF title = << >> \/ author = << >> \/ content = << >>
    THEN [threw |-> TRUE, id |-> << >>]
    ELSE [threw |-> FALSE,
          id |-> hashString(trim(title) \o <<Bar>> \o trim(author) \o <<Bar>>
                             \o trim(substring(content, ContentPrefix)))]

\* a clipping's title, author and content wait in last.ids for the call
InitId ==
    /\ settings = DefaultSettings
    /\ reviewData = << >>
    /\ now = 1
    /\ updates = 0
    /\ \E title \in Texts, author \in Texts, content \in Contents :
          last = [NoCall EXCEPT !.op = "clipping", !.ids = <<title, author, content>>]
    /\ run = [c \in Cards |-> NoRun]
    /\ modal = NoModal

GenerateCardId ==
    /\ last.op = "clipping"
    /\ last' = [last EXCEPT !.op = "generateCardId",
                            !.result = generateCardId(last.ids[1], last.ids[2], last.ids[3])]
    /\ UNCHANGED <<modal, settings, reviewData, now, updates, run>>

NextId == GenerateCardId

SpecId == InitId /\ [][NextId]_vars

----------------------------------------------------------------------------
(* What the claims speak of *)

\* the lists of candidate ids handed to the queries
CandidateLists ==
    {<< >>} \cup {<<a>> : a \in Cards} \cup {<<a, b>> : a \in Cards, b \in Cards}

InSeq(x, s) == \E i \in DOMAIN s : s[i] = x

\* a call of reviewCard has just returned; the settings are those it ran under
Reviewed == last.op = "reviewCard"
After == reviewData[last.card]
Before == last.before

maximumInterval == OrDefault(settings.maximumInterval, 36500)
leechThreshold == OrDefault(settings.leechThreshold, 8)

----------------------------------------------------------------------------
\* C1: after every review of a card created by the scheduler, the card's
\* easeFactor is at least the minimum ease factor (1.3).
EaseFloor ==
    \A c \in DOMAIN reviewData : reviewData[c].easeFactor >= MinimumEase

\* a Hard or Again answer that would have taken the ease below the floor
EaseFloorWitness ==
    /\ Reviewed
    /\ Before.difficulty = "review"
    /\ last.quality \in {"again", "hard"}
    /\ Before.easeFactor - HardPenalty < MinimumEase
    /\ After.easeFactor = MinimumEase

\* C2: after any sequence of reviews under one configuration, no record's
\* intervalDays exceeds the configured maximumInterval.
IntervalWithinMaximum ==
    updates = 0 =>
        \A c \in DOMAIN reviewData : reviewData[c].interval <= maximumInterval

\* C3: a review of a Review-state card leaves intervalDays within
\* [minimumInterval, maximumInterval], whatever the outcome and configuration.
ReviewIntervalWithinBounds ==
    (Reviewed /\ Before.difficulty = "review") =>
        /\ After.interval >= settings.minimumInterval
        /\ After.interval <= maximumInterval

\* C4: a review that brings lapses to the leech threshold leaves the card
\* buried; a buried card stays buried through every later call, and no
\* dueCards, newCards or studyCards result holds it, whatever its nextReviewAt.
BuriedAtThreshold ==
    (Reviewed /\ After.lapses >= leechThreshold) => After.buried

BuriedNeverSelected ==
    \A c \in DOMAIN reviewData : reviewData[c].buried =>
        \A cardIds \in CandidateLists, t \in {now} \cup Instants :
            LET rd == withCards(reviewData, cardIds, settings, t)
            IN  /\ ~InSeq(c, getDueCards(rd, cardIds, t, settings))
                /\ ~InSeq(c, getNewCards(rd, cardIds, settings))
                /\ ~InSeq(c, getStudyCards(rd, cardIds, t, settings))

BuriedStays ==
    \A c \in DOMAIN reviewData : reviewData[c].buried =>
        c \in DOMAIN reviewData' /\ reviewData'[c].buried

stepsToPass(data) == Max(1, Len(data.learningSteps))

\* C5: Good answers alone take a New card through Learning to Review, and a
\* lapsed card through Relearning back to Review, in as many reviews as the
\* card has steps (one more from New).
GoodRunReachesReview ==
    \A c \in DOMAIN reviewData :
        LET data == reviewData[c]
        IN  /\ run[c].kind = "fromNew" =>
                 IF run[c].n >= 1 + stepsToPass(data)
                 THEN data.difficulty = "review"
                 ELSE data.difficulty = "learning"
            /\ run[c].kind = "lapse" =>
                 IF run[c].n >= stepsToPass(data)
                 THEN data.difficulty = "review"
                 ELSE data.difficulty = "relearning"

\* a lapsed card back in Review after two Good answers on two relearning steps
GoodRunWitness ==
    \E c \in DOMAIN reviewData :
        /\ run[c].kind = "lapse"
        /\ run[c].n = 2
        /\ Len(reviewData[c].learningSteps) = 2
        /\ reviewData[c].difficulty = "review"

\* C6 as stated: under the default configuration a new card answered
\* [Good, Good] is in Review with intervalDays = 1.
DefaultThroughout == settings = DefaultSettings /\ updates = 0

GoodGoodGraduates ==
    DefaultThroughout =>
        \A c \in DOMAIN reviewData :
            (run[c] = [kind |-> "fromNew", n |-> 2]) =>
                /\ reviewData[c].difficulty = "review"
                /\ reviewData[c].interval = 1

\* C6 as amended: under the default configuration a new card answered
\* [Good, Good] is still in Learning, on its second step, and the third Good
\* puts it in Review with intervalDays = 1.
ThreeGoodsGraduate ==
    DefaultThroughout =>
        \A c \in DOMAIN reviewData :
            /\ (run[c] = [kind |-> "fromNew", n |-> 2]) =>
                /\ reviewData[c].difficulty = "learning"
                /\ reviewData[c].currentStep = 1
            /\ (run[c] = [kind |-> "fromNew", n |-> 3]) =>
                /\ reviewData[c].difficulty = "review"
                /\ reviewData[c].interval = 1

ThreeGoodsWitness ==
    /\ DefaultThroughout
    /\ \E c \in DOMAIN reviewData :
        /\ run[c] = [kind |-> "fromNew", n |-> 3]
        /\ reviewData[c].totalReviews = 3
        /\ reviewData[c].difficulty = "review"

\* C7: Again, Hard or Good on a New card puts it in Learning at step 0, due
\* after the first learning step's minutes; Easy puts it in Review with the
\* easy interval (4 days by default), repetitions = 1, correctStreak = 1, due
\* after that many days.
NewCardReview ==
    (Reviewed /\ Before.difficulty = "new") =>
        IF last.quality = "easy"
        THEN /\ After.difficulty = "review"
             /\ After.interval = settings.easyInterval
             /\ settings = DefaultSettings => After.interval = 4
             /\ After.repetitions = 1
             /\ After.correctStreak = 1
             /\ After.nextReview = last.at + After.interval * Day
        ELSE /\ After.difficulty = "learning"
             /\ After.currentStep = 0
             /\ After.nextReview = last.at + Before.learningSteps[1]

\* Easy on a New card under the default configuration, later than the epoch
NewCardReviewWitness ==
    /\ Reviewed
    /\ Before.difficulty = "new"
    /\ last.quality = "easy"
    /\ settings = DefaultSettings
    /\ last.at > 1
    /\ After.nextReview = last.at + 4 * Day

\* what C8 says of a lapse, but for the interval
LapseEffects ==
    /\ After.lapses = Before.lapses + 1
    /\ After.easeFactor = Max(MinimumEase, Before.easeFactor - AgainPenalty)
    /\ After.difficulty = "relearning"
    /\ After.currentStep = 0
    /\ After.nextReview = last.at + settings.relearningSteps[1]

Lapsed == Reviewed /\ Before.difficulty = "review" /\ last.quality = "again"

\* C8 as stated: Again on a Review-state card adds one lapse, lowers the ease
\* by 0.20 down to the minimum, puts the card in Relearning at step 0, due
\* after the first relearning step, with
\* intervalDays = max(1, floor(oldInterval * newIntervalFraction)).
LapseKeepsFraction ==
    Lapsed =>
        /\ LapseEffects
        /\ After.interval = Max(1, (Before.interval * settings.newInterval) \div 20)

\* C8 as amended: the same, the interval being capped at maximumInterval.
LapseKeepsCappedFraction ==
    Lapsed =>
        /\ LapseEffects
        /\ After.interval =
              Min(maximumInterval,
                  Max(1, (Before.interval * settings.newInterval) \div 20))
        /\ settings.newInterval = 0 => After.interval = 1

\* a lapse at fraction 0 of a card whose interval was longer than a day
LapseWitness ==
    /\ Lapsed
    /\ settings.newInterval = 0
    /\ Before.interval > 1
    /\ After.interval = 1
    /\ After.lapses = 1

\* C9: after Again on a Review, Learning or Relearning card correctStreak is
\* 0, and after Again on a Review card repetitions is 0.
AgainResetsStreak ==
    (Reviewed /\ last.quality = "again"
              /\ Before.difficulty \in {"review", "learning", "relearning"}) =>
        /\ After.correctStreak = 0
        /\ Before.difficulty = "review" => After.repetitions = 0

\* C10: Good on a Review-state card sets
\* intervalDays = floor(oldInterval * easeFactor * intervalModifier), capped at
\* maximumInterval, adds one to repetitions and to correctStreak and leaves
\* easeFactor as it was; interval 10, ease 2.5 and modifier 1.0 give 25.
GoodReview ==
    (Reviewed /\ Before.difficulty = "review" /\ last.quality = "good") =>
        /\ After.interval =
              Min(maximumInterval,
                  (Before.interval * Before.easeFactor * settings.intervalModifier)
                      \div 400)
        /\ After.repetitions = Before.repetitions + 1
        /\ After.correctStreak = Before.correctStreak + 1
        /\ After.easeFactor = Before.easeFactor
        /\ (Before.interval = 10 /\ Before.easeFactor = 50
                /\ settings.intervalModifier = 20) => After.interval = 25

GoodReviewWitness ==
    /\ Reviewed
    /\ Before.difficulty = "review"
    /\ last.quality = "good"
    /\ Before.interval = 10
    /\ Before.easeFactor = 50
    /\ settings.intervalModifier = 20
    /\ After.interval = 25

----------------------------------------------------------------------------
(* Export and import *)

\* C11: every record in state New has repetitions = 0 and intervalDays = 0,
\* in every reachable state, right after the saved records have been loaded
\* included.
NewIsUnreviewed ==
    \A c \in DOMAIN reviewData :
        reviewData[c].difficulty = "new" =>
            /\ reviewData[c].repetitions = 0
            /\ reviewData[c].interval = 0

\* C12: a scheduler built from the export of a state reached by reviews has,
\* for every card, a record equal to the original in every field.
ExportImportRoundTrip ==
    loadData(savedData(reviewData)) = reviewData

----------------------------------------------------------------------------
(* The queries *)

\* a query has just returned
Asked(op) == last.op = op

Pos(s, x) == CHOOSE i \in DOMAIN s : s[i] = x

\* res lists ids of cardIds, each once, in the order cardIds has them
InInputOrder(res, cardIds) ==
    /\ \A i \in DOMAIN res : InSeq(res[i], cardIds)
    /\ \A i, j \in DOMAIN res : i < j => Pos(cardIds, res[i]) < Pos(cardIds, res[j])

\* the places of cardIds whose id is in res
Kept(res, cardIds) == {i \in DOMAIN cardIds : InSeq(cardIds[i], res)}

IsDue(c) == ~reviewData[c].buried /\ reviewData[c].nextReview <= last.at

IsDueReview(c) ==
    /\ IsDue(c)
    /\ reviewData[c].difficulty \in {"learning", "relearning", "review"}

IsNew(c) == ~reviewData[c].buried /\ reviewData[c].difficulty = "new"

\* C13: dueCards returns exactly the candidate ids whose record is not buried
\* and has nextReviewAt <= now, in input order; with a nonzero
\* maxReviewsPerDay only the first maxReviewsPerDay of them, with 0 all.
DueCardsExact ==
    Asked("getDueCards") =>
        LET cap == settings.maximumReviewsPerDay
            due == {i \in DOMAIN last.ids : IsDue(last.ids[i])}
            kept == Kept(last.result, last.ids)
        IN  /\ InInputOrder(last.result, last.ids)
            /\ kept \subseteq due
            /\ cap = 0 => kept = due
            /\ cap # 0 =>
                  /\ Cardinality(kept) = Min(cap, Cardinality(due))
                  /\ \A i \in due \ kept, j \in kept : j < i

\* a cap of one cuts a second due card off, behind a card that is not due
DueCardsWitness ==
    /\ Asked("getDueCards")
    /\ settings.maximumReviewsPerDay = 1
    /\ Len(last.ids) = 3
    /\ ~IsDue(last.ids[1])
    /\ IsDue(last.ids[2])
    /\ IsDue(last.ids[3])
    /\ last.result = <<last.ids[2]>>

\* C14: newCards returns only ids whose record is New and not buried, in
\* input order, and never more than the configured newCardsPerDay of them.
NewCardsWithinCap ==
    Asked("getNewCards") =>
        /\ InInputOrder(last.result, last.ids)
        /\ \A i \in DOMAIN last.result : IsNew(last.result[i])
        /\ Len(last.result) <= settings.newCardsPerDay

\* C15: with a nonzero maxReviewsPerDay, studyCards returns at most that many
\* ids; every id it returns is of a card that is not buried and is either due
\* in Learning, Relearning or Review, or New.
StudyCardsWithinCap ==
    Asked("getStudyCards") =>
        /\ settings.maximumReviewsPerDay # 0 =>
              Len(last.result) <= settings.maximumReviewsPerDay
        /\ \A i \in DOMAIN last.result :
              IsDueReview(last.result[i]) \/ IsNew(last.result[i])

\* three cards to study under a cap of two
StudyCardsCapWitness ==
    /\ Asked("getStudyCards")
    /\ settings.maximumReviewsPerDay = 2
    /\ Len(last.ids) = 3
    /\ \A i \in DOMAIN last.ids : IsDueReview(last.ids[i]) \/ IsNew(last.ids[i])
    /\ \E i \in DOMAIN last.ids : IsDueReview(last.ids[i])
    /\ IsNew(last.ids[1])
    /\ Len(last.result) = 2

\* C16: in a studyCards result every due Learning, Relearning or Review card
\* precedes every New card, and a result cut by maxReviewsPerDay holds a New
\* card only if it holds every due candidate that is not buried.
StudyCardsDueFirst ==
    Asked("getStudyCards") =>
        /\ \A i, j \in DOMAIN last.result :
              (IsDueReview(last.result[i]) /\ IsNew(last.result[j])) => i < j
        /\ (\E j \in DOMAIN last.result : IsNew(last.result[j])) =>
              \A i \in DOMAIN last.ids :
                  IsDueReview(last.ids[i]) => InSeq(last.ids[i], last.result)

\* a New card handed in first comes out behind the due card, the other New
\* card is cut off
StudyCardsDueFirstWitness ==
    /\ Asked("getStudyCards")
    /\ settings.maximumReviewsPerDay = 2
    /\ Len(last.ids) = 3
    /\ IsNew(last.ids[1])
    /\ IsNew(last.ids[2])
    /\ IsDueReview(last.ids[3])
    /\ last.result = <<last.ids[3], last.ids[1]>>

----------------------------------------------------------------------------
(* The priority order *)

\* the comparator on two cards of the map at the time of the last call
cmp(a, b) == compare(reviewData[a], reviewData[b], last.at)

\* the lists holding the ids of cardIds in some order
Orderings(cardIds) ==
    {p \in CardIdLists : Len(p) = Len(cardIds) /\ \A i \in DOMAIN p : InSeq(p[i], cardIds)}

\* C17: for a fixed state and time sortedByPriority returns the same list
\* for every permutation of the same candidate ids; sorting, shuffling the
\* result and sorting again gives the first sorted list.
SortIgnoresInputOrder ==
    Asked("getSortedCards") =>
        \A p \in Orderings(last.ids) :
            getSortedCards(reviewData, p, last.at) = last.result

\* C17, amended: the sorted lists of two permutations hold, place by place,
\* cards the comparator ties; tied cards keep the order they were handed in;
\* with no two candidates tied the lists are equal; a sorted list sorted
\* again is unchanged.
SortFixedUpToTies ==
    Asked("getSortedCards") =>
        /\ getSortedCards(reviewData, last.result, last.at) = last.result
        /\ \A p \in Orderings(last.ids) :
              LET r == getSortedCards(reviewData, p, last.at)
              IN  /\ r \in Orderings(last.ids)
                  /\ \A i \in DOMAIN r : cmp(r[i], last.result[i]) = 0
                  /\ \A i, j \in DOMAIN r :
                        (i < j /\ cmp(r[i], r[j]) = 0) => Pos(p, r[i]) < Pos(p, r[j])
                  /\ (\A i, j \in DOMAIN r : cmp(r[i], r[j]) = 0 => i = j) =>
                        r = last.result

\* the first two cards handed in are tied and the third goes in front of
\* them: the tied cards come out in the order they went in
SortTiesWitness ==
    /\ Asked("getSortedCards")
    /\ Len(last.ids) = 3
    /\ cmp(last.ids[1], last.ids[2]) = 0
    /\ cmp(last.ids[3], last.ids[1]) < 0
    /\ last.result = <<last.ids[3], last.ids[1], last.ids[2]>>
    /\ getSortedCards(reviewData, <<last.ids[2], last.ids[1], last.ids[3]>>, last.at)
          = <<last.ids[3], last.ids[2], last.ids[1]>>

\* C18: at a fixed time the comparator is a strict weak ordering of the
\* records: compare(a, a) = 0, compare(a, b) < 0 exactly when
\* compare(b, a) > 0, "a before b" is transitive and so is being tied.
StrictWeakOrdering ==
    Asked("getSortedCards") =>
        /\ \A a \in DOMAIN reviewData : cmp(a, a) = 0
        /\ \A a, b \in DOMAIN reviewData : cmp(a, b) < 0 <=> cmp(b, a) > 0
        /\ \A a, b, c \in DOMAIN reviewData :
              /\ (cmp(a, b) < 0 /\ cmp(b, c) < 0) => cmp(a, c) < 0
              /\ (cmp(a, b) = 0 /\ cmp(b, c) = 0) => cmp(a, c) = 0

\* three cards sorted, each pair put in order by another rule: a card in
\* relearning before a New card that is due before a Review card that is not
StrictWeakOrderingWitness ==
    /\ Asked("getSortedCards")
    /\ Len(last.result) = 3
    /\ cmp(last.result[1], last.result[2]) < 0
    /\ cmp(last.result[2], last.result[3]) < 0
    /\ cmp(last.result[1], last.result[3]) < 0
    /\ reviewData[last.result[1]].difficulty = "relearning"
    /\ reviewData[last.result[2]].difficulty = "new"
    /\ reviewData[last.result[3]].difficulty = "review"

\* C19: in a sortedByPriority result every New card that is not buried comes
\* after every Review-state card that is not buried, due or not.
NewAfterReview ==
    Asked("getSortedCards") =>
        \A i, j \in DOMAIN last.result :
            (/\ IsNew(last.result[i])
             /\ ~reviewData[last.result[j]].buried
             /\ reviewData[last.result[j]].difficulty = "review") => j < i

\* the groups the rules before the last one tell apart
StateGroup(c) ==
    IF reviewData[c].difficulty \in {"learning", "relearning"} THEN "steps"
    ELSE reviewData[c].difficulty

\* two cards no rule before the last tells apart
TiedBeforeEase(a, b) ==
    LET aDue == reviewData[a].nextReview <= last.at
        bDue == reviewData[b].nextReview <= last.at
    IN  /\ reviewData[a].buried = reviewData[b].buried
        /\ StateGroup(a) = StateGroup(b)
        /\ \/ aDue /\ bDue /\ reviewData[a].nextReview = reviewData[b].nextReview
           \/ ~aDue /\ ~bDue /\ StateGroup(a) # "steps"

\* C20: of two cards tied on every earlier rule (same buried flag, same state
\* group, both due with equal nextReviewAt or both not due) sortedByPriority
\* places the one with the lower easeFactor first.
LowerEaseFirst ==
    Asked("getSortedCards") =>
        \A i, j \in DOMAIN last.result :
            (i < j /\ TiedBeforeEase(last.result[i], last.result[j])) =>
                reviewData[last.result[i]].easeFactor
                    <= reviewData[last.result[j]].easeFactor

\* C21: in a sortedByPriority result every buried card comes after every
\* card that is not buried, and of the cards that are not buried every
\* Learning or Relearning card comes before every Review or New card.
BuriedLastStepsFirst ==
    Asked("getSortedCards") =>
        \A i, j \in DOMAIN last.result :
            LET a == reviewData[last.result[i]]
                b == reviewData[last.result[j]]
            IN  /\ (~a.buried /\ b.buried) => i < j
                /\ (/\ ~a.buried
                    /\ ~b.buried
                    /\ a.difficulty \in {"learning", "relearning"}
                    /\ b.difficulty \in {"review", "new"}) => i < j

\* handed in last to first: a buried card, a New card, a Learning card
BuriedLastWitness ==
    /\ Asked("getSortedCards")
    /\ Len(last.ids) = 3
    /\ reviewData[last.ids[1]].buried
    /\ IsNew(last.ids[2])
    /\ ~reviewData[last.ids[3]].buried
    /\ reviewData[last.ids[3]].difficulty = "learning"
    /\ last.result = <<last.ids[3], last.ids[2], last.ids[1]>>

----------------------------------------------------------------------------
(* The card identifier *)

\* C23: generateCardId is a function of its three inputs alone, and two
\* calls with the same title and author and with contents that agree on
\* their first 100 characters return the same identifier.
IdFromContentPrefix ==
    Asked("generateCardId") =>
        \A content \in Contents :
            substring(content, ContentPrefix) = substring(last.ids[3], ContentPrefix)
                => generateCardId(last.ids[1], last.ids[2], content) = last.result

\* a content longer than 100 characters, and another that differs from it
\* behind the hundredth
IdPrefixWitness ==
    /\ Asked("generateCardId")
    /\ ~last.result.threw
    /\ Len(last.result.id) = IdWidth
    /\ Len(last.ids[3]) > ContentPrefix
    /\ \E content \in Contents :
          /\ content # last.ids[3]
          /\ trim(content) # trim(last.ids[3])
          /\ substring(content, ContentPrefix) = substring(last.ids[3], ContentPrefix)

\* C24: generateCardId signals an error whenever the title, the author or
\* the content is empty after trimming, and returns an identifier otherwise.
IdErrorWhenBlank ==
    Asked("generateCardId") =>
        (last.result.threw <=>
            \E i \in 1..3 : trim(last.ids[i]) = << >>)

----------------------------------------------------------------------------
(* Import of old and of damaged records *)

\* C25: a record imported without its optional fields gets for them the
\* values of a fresh record: lapses 0, step 0, not buried and the configured
\* learning steps.
OldFormatAsFresh ==
    last.op = "loadOldFormat" =>
        \A c \in DOMAIN reviewData :
            LET fresh == createNewCardData(c, settings, now)
            IN  /\ reviewData[c].lapses = fresh.lapses
                /\ reviewData[c].currentStep = fresh.currentStep
                /\ reviewData[c].buried = fresh.buried
                /\ reviewData[c].learningSteps = fresh.learningSteps

\* C26: an imported record whose timestamp or state cannot be interpreted is
\* not loaded, and every other record of the snapshot is.
CorruptRecordDropped ==
    last.op = "loadCorrupt" => last.card \notin DOMAIN reviewData

----------------------------------------------------------------------------
(* The clock and the frame of the operations *)

QueryOps == {"getDueCards", "getNewCards", "getStudyCards", "getSortedCards", "getStats"}

\* C27: an id without a record that is passed to dueCards is created and
\* reported due in that call, whatever the clock does during the call
\* (unless maxReviewsPerDay cuts it off).
UnseenReportedDue ==
    [][last'.op = "getDueCards" =>
          \A i \in DOMAIN last'.ids :
              last'.ids[i] \notin DOMAIN reviewData =>
                  \/ InSeq(last'.ids[i], last'.result)
                  \/ /\ settings.maximumReviewsPerDay # 0
                     /\ Len(last'.result) = settings.maximumReviewsPerDay]_vars

\* C28: the queries change no field of a record that is in the map; all they
\* do to the map is insert fresh New records for candidate ids without one.
QueriesOnlyInsert ==
    [][last'.op \in QueryOps =>
          /\ \A c \in DOMAIN reviewData :
                c \in DOMAIN reviewData' /\ reviewData'[c] = reviewData[c]
          /\ \A c \in DOMAIN reviewData' \ DOMAIN reviewData :
                /\ InSeq(c, last'.ids)
                /\ reviewData'[c] = createNewCardData(c, settings, now')
          /\ settings' = settings]_vars

\* a sort has met a reviewed card and a card without a record, which it
\* created after the clock had moved on
QueriesInsertWitness ==
    /\ Asked("getSortedCards")
    /\ Len(last.ids) = 2
    /\ reviewData[last.ids[1]].totalReviews > 1
    /\ now > last.at
    /\ reviewData[last.ids[2]] = createNewCardData(last.ids[2], settings, now)

\* C29: review(cardId, outcome) changes the record of cardId alone, every
\* other record stays as it was, and no operation removes a record.
ReviewChangesOneRecord ==
    [][/\ DOMAIN reviewData \subseteq DOMAIN reviewData'
       /\ last'.op = "reviewCard" =>
             \A c \in DOMAIN reviewData \ {last'.card} :
                 reviewData'[c] = reviewData[c]]_vars

\* a card of a deck of three has been reviewed
ReviewInDeckWitness ==
    /\ last.op = "reviewCard"
    /\ DOMAIN reviewData = DeckCards
    /\ reviewData[last.card] # last.before
    /\ \A c \in DeckCards \ {last.card} : reviewData[c].totalReviews > 0

----------------------------------------------------------------------------
(* The learning steps *)

\* C30: Good on a Learning card that is not on its last step moves it on by
\* one step, leaves it in Learning and schedules it at now + the minutes of
\* that step; Good on the last step graduates it: state Review, intervalDays
\* = graduating interval, repetitions = 1, correctStreak = 1 and
\* nextReviewAt = now + intervalDays days.
LearningGood ==
    (Reviewed /\ Before.difficulty = "learning" /\ last.quality = "good") =>
        IF Before.currentStep < Len(Before.learningSteps) - 1
        THEN /\ After.difficulty = "learning"
             /\ After.currentStep = Before.currentStep + 1
             /\ After.nextReview = last.at + Before.learningSteps[After.currentStep + 1]
             /\ After.interval = Before.interval
        ELSE /\ After.difficulty = "review"
             /\ After.interval = OrDefault(settings.graduatingInterval, 1)
             /\ After.repetitions = 1
             /\ After.correctStreak = 1
             /\ After.nextReview = last.at + After.interval * Day

\* the third Good in a row on a card with two learning steps: the second
\* moved it to the last step, the third graduates it
LearningGoodWitness ==
    /\ Reviewed
    /\ Before.difficulty = "learning"
    /\ last.quality = "good"
    /\ run[last.card] = [kind |-> "fromNew", n |-> 3]
    /\ Len(Before.learningSteps) = 2
    /\ Before.currentStep = 1
    /\ After.difficulty = "review"

-----------------------------------------------------------------------------
\* C31: in Learning and in Relearning, Again sets the step index to 0 and
\* Hard sets it to max(0, step - 1); both leave the state unchanged and set
\* nextReviewAt = now + the minutes of the resulting step.
AgainHardInSteps ==
    (/\ Reviewed
     /\ Before.difficulty \in {"learning", "relearning"}
     /\ last.quality \in {"again", "hard"}) =>
        /\ After.difficulty = Before.difficulty
        /\ After.currentStep = IF last.quality = "again"
                               THEN 0
                               ELSE Max(0, Before.currentStep - 1)
        /\ After.currentStep + 1 \in DOMAIN After.learningSteps
        /\ After.nextReview =
               last.at + After.learningSteps[After.currentStep + 1]

\* Hard on the second relearning step of a lapsed card: back to the first
AgainHardInStepsWitness ==
    /\ Reviewed
    /\ Before.difficulty = "relearning"
    /\ last.quality = "hard"
    /\ Before.currentStep = 1
    /\ After.currentStep = 0
    /\ After.nextReview = last.at + Before.learningSteps[1]

-----------------------------------------------------------------------------
\* C32: Good on a Relearning card at its last relearning step returns it to
\* Review with intervalDays unchanged by that review and nextReviewAt = now +
\* intervalDays days; Good before the last step advances exactly one step
\* and stays in Relearning.
RelearningGood ==
    (Reviewed /\ Before.difficulty = "relearning" /\ last.quality = "good") =>
        IF Before.currentStep = Len(Before.learningSteps) - 1
        THEN /\ After.difficulty = "review"
             /\ After.interval = Before.interval
             /\ After.nextReview = last.at + Before.interval * Day
        ELSE /\ Before.currentStep < Len(Before.learningSteps) - 1
             /\ After.difficulty = "relearning"
             /\ After.currentStep = Before.currentStep + 1
             /\ After.interval = Before.interval

\* the second Good on a lapsed card with two relearning steps: the first
\* moved it to the last step, the second returns it to Review
RelearningGoodWitness ==
    /\ Reviewed
    /\ Before.difficulty = "relearning"
    /\ last.quality = "good"
    /\ Len(Before.learningSteps) = 2
    /\ Before.currentStep = 1
    /\ After.difficulty = "review"
    /\ After.nextReview = last.at + Before.interval * Day

-----------------------------------------------------------------------------
\* C33: after every review that leaves a card in Review state (graduation,
\* a Review-state Hard, Good or Easy, or the return from Relearning), the
\* card's nextReviewAt equals the review time plus exactly its stored
\* intervalDays days, including when the interval was capped at the maximum.
ReviewDueAfterInterval ==
    (Reviewed /\ After.difficulty = "review") =>
        After.nextReview = last.at + After.interval * Day

-----------------------------------------------------------------------------
\* C34: with non-empty configured learning and relearning step lists, every
\* record created by the scheduler that is in Learning or Relearning has a
\* step index that is a valid index of its active step list (0 <= index <
\* number of steps), after any sequence of reviews and configuration
\* replacements.
StepIndexValid ==
    \A c \in DOMAIN reviewData :
        reviewData[c].difficulty \in {"learning", "relearning"} =>
            /\ 0 <= reviewData[c].currentStep
            /\ reviewData[c].currentStep < Len(reviewData[c].learningSteps)

\* a card on its second learning step reviewed after the configuration was
\* replaced by one with a single learning step
StepIndexValidWitness ==
    /\ Reviewed
    /\ updates > 0
    /\ Before.difficulty = "learning"
    /\ Before.currentStep = 1
    /\ Len(settings.learningSteps) = 1
    /\ After.difficulty = "learning"

-----------------------------------------------------------------------------
\* C35: under any sequence of reviews, a card that has been reviewed at
\* least once is never in state New again, and a card that has reached
\* Review is thereafter only ever in Review or Relearning (it never returns
\* to Learning).
NoWayBack ==
    [][\A c \in DOMAIN reviewData :
          /\ c \in DOMAIN reviewData'
          /\ (reviewData[c].totalReviews > 0 \/ reviewData'[c].totalReviews > 0)
                => reviewData'[c].difficulty # "new"
          /\ reviewData[c].difficulty \in {"review", "relearning"}
                => reviewData'[c].difficulty \in {"review", "relearning"}]_vars

\* a graduated card that lapsed and has now been answered in Relearning
NoWayBackWitness ==
    /\ Reviewed
    /\ Before.graduated
    /\ Before.difficulty = "relearning"
    /\ Before.totalReviews >= 2
    /\ After.difficulty \in {"review", "relearning"}

-----------------------------------------------------------------------------
\* the steps a card answered in New, Learning or Relearning went through are
\* the ones its record held before the call, whatever the settings hold now
StepsOfRecord ==
    (Reviewed /\ Before.difficulty \in {"new", "learning", "relearning"}) =>
        /\ After.learningSteps = Before.learningSteps
        /\ After.difficulty \in {"learning", "relearning"} =>
              After.nextReview =
                  last.at + Before.learningSteps[After.currentStep + 1]
        /\ (Before.difficulty # "new" /\ last.quality = "good") =>
              (After.difficulty = Before.difficulty
                  <=> Before.currentStep < Len(Before.learningSteps) - 1)

\* C36: a card's learning steps are fixed when its record is created and its
\* relearning steps when it lapses: replacing the configuration with
\* different step lists (updateSettings) changes neither the step durations
\* nor the number of steps that cards already in the map go through in
\* Learning or Relearning.
StepsFixedPerCard ==
    [][/\ settings' # settings => reviewData' = reviewData
       /\ \A c \in DOMAIN reviewData' \ DOMAIN reviewData :
              reviewData'[c].learningSteps = settings.learningSteps
       /\ (Reviewed /\ Before.difficulty = "review"
                    /\ After.difficulty = "relearning")' =>
              reviewData'[last'.card].learningSteps = settings.relearningSteps
       /\ StepsOfRecord']_vars

\* a card created with two learning steps answers Good on the first after
\* the configuration was replaced by one with a single, different step: it
\* moves to its own second step
StepsFixedPerCardWitness ==
    /\ Reviewed
    /\ updates > 0
    /\ Before.difficulty = "learning"
    /\ Len(Before.learningSteps) = 2
    /\ Len(settings.learningSteps) = 1
    /\ Before.learningSteps[1] # settings.learningSteps[1]
    /\ last.quality = "good"
    /\ After.difficulty = "learning"
    /\ After.currentStep = 1

-----------------------------------------------------------------------------
(* One card under the default settings, answered again and again at one
   instant: the Review-state records that are compared are the ones the
   handlers themselves produce *)

MaxAnswers == 8

InitAnswers ==
    /\ settings = DefaultSettings
    /\ reviewData = << >>
    /\ now = 1
    /\ updates = 0
    /\ last = NoCall
    /\ run = [c \in Cards |-> NoRun]
    /\ modal = NoModal

AnswerCard(cardId, quality) ==
    /\ totalReviews(reviewData) < MaxAnswers
    /\ LET rd == withCard(reviewData, cardId, settings, now)
           data == rd[cardId]
       IN  /\ reviewData' = [rd EXCEPT ![cardId] = reviewed(data, quality, now, settings)]
           /\ last' = [NoCall EXCEPT !.op = "reviewCard", !.card = cardId,
                              !.quality = quality, !.at = now, !.before = data]
           /\ run' = [run EXCEPT ![cardId] = nextRun(@, data.difficulty, quality)]
    /\ UNCHANGED <<modal, settings, now, updates>>

NextAnswers == \E c \in Cards, q \in Qualities : AnswerCard(c, q)

SpecAnswers == InitAnswers /\ [][NextAnswers]_vars

\* the interval handleReviewCard stores for an answer to the record that was
\* reviewed
intervalAfter(quality) ==
    handleReviewCard(Before, quality, last.at, settings).interval

\* C37: for any Review-state record and the default multipliers, the
\* interval produced by Easy is at least the interval produced by Good, and
\* the interval produced by Good is at least the interval produced by Hard
\* from that same record.
AnswersOrdered ==
    (Reviewed /\ Before.difficulty = "review") =>
        /\ intervalAfter("easy") >= intervalAfter("good")
        /\ intervalAfter("good") >= intervalAfter("hard")

-----------------------------------------------------------------------------
(* The study session: FlashcardStudyModal (src/flashcard-modal.ts), opened
   without a plugin as the study commands of src/main.ts open it, so that
   markCard makes no call on the scheduler.  The clippings are known by
   their index.  The timeouts all wait 300 ms, so they run in the order they
   were set; any handler can run while one is pending. *)

MaxClippings == 4
MaxTimers == 2
MaxMarked == 3

\* updateControlsState: the study buttons are looked up in contentEl, which
\* holds them only while a card is on the screen
updateControlsState(m) ==
    LET onScreen == m.screen = "card"
    IN  [m EXCEPT
            !.prevDisabled = m.currentIndex = 0,
            !.nextDisabled = m.currentIndex >= m.clippings - 1,
            !.flipDisabled = m.showingAnswer,
            !.studyVisible = IF onScreen THEN m.showingAnswer ELSE @,
            !.markDisabled = IF onScreen /\ m.showingAnswer THEN FALSE ELSE @]

\* showCompletionScreen empties contentEl: no card and no button is left
showCompletionScreen(m) ==
    IF m.screen = "closed"
    THEN m
    ELSE [m EXCEPT !.screen = "completion", !.shown = -1, !.studyVisible = FALSE]

\* displayCurrentCard; shown is the card the user sees, which changes only
\* while cardContent is part of the screen
displayCurrentCard(m) ==
    IF m.currentIndex >= m.clippings
    THEN showCompletionScreen(m)
    ELSE updateControlsState(
            [m EXCEPT !.showingAnswer = FALSE,
                      !.shown = IF m.screen = "card" THEN m.currentIndex ELSE @])

flipCard(m) ==
    IF m.showingAnswer
    THEN m
    ELSE updateControlsState([m EXCEPT !.showingAnswer = TRUE])

nextCard(m) ==
    IF m.currentIndex < m.clippings - 1
    THEN displayCurrentCard([m EXCEPT !.currentIndex = @ + 1])
    ELSE IF m.currentIndex = m.clippings - 1
         THEN showCompletionScreen(m)
         ELSE m

previousCard(m) ==
    IF m.currentIndex > 0
    THEN displayCurrentCard([m EXCEPT !.currentIndex = @ - 1])
    ELSE m

\* the callback of the auto-advance timeout
advance(m) == displayCurrentCard([m EXCEPT !.currentIndex = @ + 1])

\* markCard; a timeout remembers the card it was set for and the handlers
\* that ran while it was pending
markCard(m, result) ==
    IF ~m.showingAnswer
    THEN m
    ELSE [m EXCEPT
            !.markDisabled = TRUE,
            !.studyStats = [@ EXCEPT
                !.correct = IF result = "correct" THEN @ + 1 ELSE @,
                !.incorrect = IF result = "incorrect" THEN @ + 1 ELSE @,
                !.remaining = @ - 1,
                !.reviewed = @ + 1],
            !.timers = Append(@,
                [kind |-> IF m.currentIndex < m.clippings - 1
                          THEN "advance" ELSE "complete",
                 marked |-> m.currentIndex,
                 clicks |-> {}])]

freshStats(n) ==
    [total |-> n, correct |-> 0, incorrect |-> 0, remaining |-> n,
     reviewed |-> 0]

\* the controls as createControlButtons builds them
freshControls(m) ==
    [m EXCEPT !.screen = "card",
              !.prevDisabled = FALSE, !.nextDisabled = FALSE,
              !.flipDisabled = FALSE, !.markDisabled = FALSE,
              !.studyVisible = FALSE]

onOpen(m) == displayCurrentCard(freshControls(m))

\* the Study Again button of the completion screen
studyAgain(m) ==
    displayCurrentCard(freshControls(
        [m EXCEPT !.currentIndex = 0, !.showingAnswer = FALSE,
                  !.studyStats = freshStats(m.clippings)]))

onClose(m) == [m EXCEPT !.screen = "closed", !.shown = -1, !.studyVisible = FALSE]

\* a handler has run: every pending timeout notes it
handled(m, op) ==
    [m EXCEPT
        !.timers = [i \in DOMAIN @ |-> [@[i] EXCEPT !.clicks = @ \cup {op}]],
        !.event = [op |-> op, marked |-> -1, from |-> m.shown, clicks |-> {}]]

InitModal ==
    /\ settings = DefaultSettings
    /\ reviewData = << >>
    /\ now = 1
    /\ updates = 0
    /\ last = NoCall
    /\ run = [c \in Cards |-> NoRun]
    /\ \E n \in 1..MaxClippings :
          modal = [NoModal EXCEPT !.clippings = n, !.studyStats = freshStats(n)]

OnOpen ==
    /\ modal.screen = "none"
    /\ modal' = handled(onOpen(modal), "onOpen")
    /\ UNCHANGED <<settings, reviewData, now, updates, last, run>>

PreviousCard ==
    /\ modal.screen = "card"
    /\ ~modal.prevDisabled
    /\ modal' = handled(previousCard(modal), "previousCard")
    /\ UNCHANGED <<settings, reviewData, now, updates, last, run>>

NextCard ==
    /\ modal.screen = "card"
    /\ ~modal.nextDisabled
    /\ modal' = handled(nextCard(modal), "nextCard")
    /\ UNCHANGED <<settings, reviewData, now, updates, last, run>>

\* a click on the card itself flips it too
FlipCard ==
    /\ modal.screen = "card"
    /\ modal' = handled(flipCard(modal), "flipCard")
    /\ UNCHANGED <<settings, reviewData, now, updates, last, run>>

MarkCard(result) ==
    /\ modal.screen = "card"
    /\ modal.studyVisible
    /\ ~modal.markDisabled
    /\ modal.studyStats.reviewed < MaxMarked
    /\ Len(modal.timers) < MaxTimers
    /\ modal' = markCard(handled(modal, "markCard"), result)
    /\ UNCHANGED <<settings, reviewData, now, updates, last, run>>

\* the oldest pending timeout runs
Timeout ==
    /\ modal.timers # << >>
    /\ LET timer == Head(modal.timers)
           m == handled([modal EXCEPT !.timers = Tail(@)], "timeout")
           after == IF timer.kind = "advance"
                    THEN advance(m)
                    ELSE showCompletionScreen(m)
       IN  modal' = [after EXCEPT
                !.event = [op |-> "timeout", marked |-> timer.marked,
                           from |-> modal.shown, clicks |-> timer.clicks]]
    /\ UNCHANGED <<settings, reviewData, now, updates, last, run>>

StudyAgain ==
    /\ modal.screen = "completion"
    /\ modal' = handled(studyAgain(modal), "studyAgain")
    /\ UNCHANGED <<settings, reviewData, now, updates, last, run>>

Close ==
    /\ modal.screen \in {"card", "completion"}
    /\ modal' = handled(onClose(modal), "close")
    /\ UNCHANGED <<settings, reviewData, now, updates, last, run>>

NextModal ==
    \/ OnOpen
    \/ PreviousCard
    \/ NextCard
    \/ FlipCard
    \/ \E result \in {"correct", "incorrect"} : MarkCard(result)
    \/ Timeout
    \/ StudyAgain
    \/ Close

SpecModal == InitModal /\ [][NextModal]_vars

\* while a card is on the screen it is the current one and it exists
CardOnScreen ==
    modal.screen = "card" =>
        /\ modal.currentIndex < modal.clippings
        /\ modal.shown = modal.currentIndex

\* C38: in the study session, marking the displayed card advances the
\* session by exactly one card: the card shown after the 300 ms auto-advance
\* is the one immediately following the marked card, whatever Next or
\* Previous clicks are handled during that delay, and no card is skipped
\* without being displayed.
AdvancesByOne ==
    (/\ modal.event.op = "timeout"
     /\ modal.event.clicks \subseteq {"nextCard", "previousCard"}) =>
        /\ IF modal.event.marked < modal.clippings - 1
           THEN /\ modal.screen = "card"
                /\ modal.shown = modal.event.marked + 1
           ELSE modal.screen = "completion"
        /\ modal.screen = "card" => modal.shown <= modal.event.from + 1

====
